---- MODULE Spec2Model ----
(***************************************************************************)
(* Model of src/app.py: a Streamlit script that uploads a media file,      *)
(* posts it (Base64 in a JSON body) to the ApyHub speech-to-text endpoint  *)
(* and renders the transcript with a placeholder summary.                  *)
(*                                                                         *)
(* One action is one run of the script (Streamlit re-runs the script from  *)
(* the top on every interaction).  Text is modelled as a sequence of       *)
(* tokens, so that prefix tests (startswith), substring tests (in) and     *)
(* concatenation (f-strings) are computed, not assumed.                    *)
(***************************************************************************)
EXTENDS Integers, Sequences, FiniteSets, TLC

VARIABLES
    pc,               \* "startup" | "running" | "stopped" (after st.stop())
    secrets,          \* st.secrets: <<>> (no APYHUB_API_KEY entry) or <<value>>
    json_error,       \* what response.json() raises on a malformed body in this build
    API_KEY,          \* module global of app.py; <<>> until line 15 has run
    uploaded_file,    \* the file_uploader widget's value (NoFile when empty)
    mime_type,        \* module global computed by the fallback logic
    ui,               \* the elements the last script run rendered, in order
    requests,         \* the outbound requests the last script run made
    response,         \* what the provider answered in the last script run
    analysis_result,  \* first component of analyze_media_with_apyhub's return
    path,             \* which branch / return statement the last submit took
    repeated          \* the last submit got the same answer as the one before

vars == <<pc, secrets, json_error, API_KEY, uploaded_file, mime_type, ui,
          requests, response, analysis_result, path, repeated>>

-----------------------------------------------------------------------------
(* Bounds *)

\* longest transcript string, in tokens
MaxLen == 2

-----------------------------------------------------------------------------
(* Text *)

ANALYSIS_FAILED == "Analysis failed"

Tokens == {ANALYSIS_FAILED, "hello world"}

RECURSIVE SeqsUpTo(_, _)
SeqsUpTo(S, n) ==
    IF n = 0 THEN {<<>>}
    ELSE LET shorter == SeqsUpTo(S, n - 1)
         IN  shorter \cup {Append(s, t) : s \in shorter, t \in S}

Strs == SeqsUpTo(Tokens, MaxLen)

\* str.startswith(prefix) for a one-token prefix
StartsWith(s, tok) == Len(s) > 0 /\ s[1] = tok

\* `tok in s`
Contains(s, tok) == \E i \in 1..Len(s) : s[i] = tok

-----------------------------------------------------------------------------
(* Program constants *)

APYHUB_BASE_URL == "https://api.apyhub.com/"

\* urljoin(APYHUB_BASE_URL, "ai/convert/speech-to-text")
STT_ENDPOINT == <<APYHUB_BASE_URL, "ai/convert/speech-to-text">>

MODEL_NAME == "apyhub-stt-standard"

ALL_MEDIA_EXTENSIONS ==
    {"mp4", "mov", "wav", "mp3", "m4a", "mkv", "avi", "flv", "wmv",
     "ogg", "flac", "webm"}

\* uploaded_file.size > (15 * 1024 * 1024)
SIZE_LIMIT == 15 * 1024 * 1024

\* len(base64_content) > (20 * 1024 * 1024)
BASE64_WARN_LIMIT == 20 * 1024 * 1024

\* requests.post(..., timeout=300)
POST_TIMEOUT == 300

-----------------------------------------------------------------------------
(* Uploaded files *)

OCTET_STREAM == <<"application/", "octet-stream">>

\* A content type is a token sequence; <<>> is the empty / missing type.
DeclaredTypes ==
    { <<>>, OCTET_STREAM, <<"binary/", "octet-stream">>,
      <<"audio/", "mpeg">>, <<"video/", "webm">>, <<"audio/", "x-wav">> }

\* A name is stem + "." + extension; the uploader only accepts names whose
\* extension is one of ALL_MEDIA_EXTENSIONS, in either case.
FileNames == [stem : {"clip"}, ext : ALL_MEDIA_EXTENSIONS, upper : BOOLEAN]

FileSizes == {1, SIZE_LIMIT, SIZE_LIMIT + 1}

File(name, type, size, pos) ==
    [name |-> name, type |-> type, size |-> size, pos |-> pos]

NoFile == File([stem |-> "", ext |-> "", upper |-> FALSE], <<>>, -1, 0)

\* every upload the widget can deliver, cursor at the start
AllFiles == {File(n, t, 1, 0) : n \in FileNames, t \in DeclaredTypes}

\* the uploads of the main specification
MainFiles ==
    {File(n, t, s, 0) :
        n \in {x \in FileNames : (x.ext = "mp3" /\ ~x.upper) \/ (x.ext = "mkv" /\ x.upper)},
        t \in {<<>>, <<"audio/", "mpeg">>},
        s \in FileSizes}

-----------------------------------------------------------------------------
(* MIME fallback logic (script lines 177-188) *)

\* os.path.splitext(uploaded_file.name)[1]: the extension, case kept
SplitExt(name) == [ext |-> name.ext, upper |-> name.upper]

\* .lower().replace('.', '')
LowerExt(e) == [ext |-> e.ext, upper |-> FALSE]

\* ext == 'mp3' compares with a lower-case literal
ExtIs(e, lit) == e.ext = lit /\ ~e.upper

\* mutant: the test on 'octet-stream' negated
NeedsFallback_Negated(t) == t = <<>> \/ ~Contains(t, "octet-stream")

\* if not mime_type or 'octet-stream' in mime_type:
NeedsFallback(t) == t = <<>> \/ Contains(t, "octet-stream")

MimeForExt(e) ==
    IF ExtIs(e, "mp3") THEN <<"audio/", "mpeg">>
    ELSE IF ExtIs(e, "wav") THEN <<"audio/", "wav">>
    ELSE IF ExtIs(e, "mp4") THEN <<"video/", "mp4">>
    ELSE IF ExtIs(e, "mov") THEN <<"video/", "quicktime">>
    ELSE IF ExtIs(e, "m4a") THEN <<"audio/", "m4a">>
    ELSE IF ExtIs(e, "ogg") THEN <<"audio/", "ogg">>
    ELSE OCTET_STREAM

ResolveMime(f) ==
    IF NeedsFallback(f.type)
    THEN MimeForExt(LowerExt(SplitExt(f.name)))
    ELSE f.type

-----------------------------------------------------------------------------
(* Provider responses *)

\* A JSON scalar or list: k is its type, s its text (str), n its number
\* (num) or its length (list).
Scalar(k, s, n) == [k |-> k, s |-> s, n |-> n]

Null == Scalar("null", <<>>, 0)

Scalars ==
    {Scalar("str", s, 0) : s \in Strs}
        \cup {Scalar("num", <<>>, n) : n \in {0, 7}}
        \cup {Scalar("list", <<>>, n) : n \in {0, 1}}
        \cup {Null}

\* A JSON value in the `data` position: a scalar, or an object (k = "obj")
\* with an optional `text` member and possibly other members.
JVal(k, s, n, hasText, text, other) ==
    [k |-> k, s |-> s, n |-> n, hasText |-> hasText, text |-> text, other |-> other]

JScalar(sc) == JVal(sc.k, sc.s, sc.n, FALSE, Null, FALSE)

JObject(hasText, text, other) == JVal("obj", <<>>, 0, hasText, text, other)

\* the {} of transcript_data.get("data", {})
EmptyDict == JObject(FALSE, Null, FALSE)

\* Python's None
PyNone == JScalar(Null)

DataVals ==
    {JScalar(sc) : sc \in Scalars}
        \cup {EmptyDict, JObject(FALSE, Null, TRUE)}
        \cup {JObject(TRUE, sc, FALSE) : sc \in Scalars}

\* A response body: not JSON at all, a JSON array, or a JSON object with an
\* optional `data` member.
Body(json, hasData, data) == [json |-> json, hasData |-> hasData, data |-> data]

Bodies ==
    {Body("malformed", FALSE, PyNone), Body("list", FALSE, PyNone),
     Body("object", FALSE, PyNone)}
        \cup {Body("object", TRUE, d) : d \in DataVals}

\* status codes answered with every body of Bodies, and status codes
\* answered with two bodies only
RichStatuses == {200, 301}
PlainStatuses == {400, 401, 500, 599}

Response(kind, status, body) == [kind |-> kind, status |-> status, body |-> body]

Responses ==
    {Response("http", st, b) : st \in RichStatuses, b \in Bodies}
        \cup {Response("http", st, b) : st \in PlainStatuses,
                 b \in {Body("malformed", FALSE, PyNone), Body("object", FALSE, PyNone)}}
        \cup {Response(k, 0, Body("malformed", FALSE, PyNone)) : k \in {"timeout", "connection"}}

\* what response.json() raises on a body that is not JSON: requests' own
\* JSONDecodeError (a RequestException) in recent releases, a plain
\* ValueError in older ones
JsonErrors == {"RequestException", "ValueError"}

-----------------------------------------------------------------------------
(* Python semantics used by analyze_media_with_apyhub *)

\* bool(v)
Truthy(v) ==
    CASE v.k = "str"  -> v.s # <<>>
      [] v.k = "num"  -> v.n # 0
      [] v.k = "list" -> v.n > 0
      [] v.k = "null" -> FALSE
      [] v.k = "obj"  -> v.hasText \/ v.other

\* str(v), as the f-string formats it
PyStr(v) ==
    CASE v.k = "str"  -> v.s
      [] v.k = "num"  -> IF v.n = 0 THEN <<"0">> ELSE <<"7">>
      [] v.k = "list" -> IF v.n = 0 THEN <<"[]">> ELSE <<"[0]">>
      [] v.k = "null" -> <<"None">>
      [] v.k = "obj"  -> IF v.hasText \/ v.other THEN <<"{...}">> ELSE <<"{}">>

\* mutant: only server errors raise
RaisesForStatus_ServerOnly(status) == 500 <= status /\ status < 600

\* response.raise_for_status(): HTTPError for 4xx and 5xx
RaisesForStatus(status) == 400 <= status /\ status < 600

\* transcript_data.get("data", {})
GetData(body) == IF body.hasData THEN body.data ELSE EmptyDict

\* transcript_data.get("data")
GetDataOrNone(body) == IF body.hasData THEN body.data ELSE PyNone

\* only dicts have .get
HasGet(v) == v.k = "obj"

\* line 89, when no AttributeError is raised
TranscriptText(body) ==
    LET d == GetData(body)
    IN  IF d.hasText THEN JScalar(d.text) ELSE GetDataOrNone(body)

\* line 88-89 raise: AttributeError when the body is not an object, or when
\* `data` is present and is not an object
ExtractRaises(body) == body.json # "object" \/ ~HasGet(GetData(body))

-----------------------------------------------------------------------------
(* analyze_media_with_apyhub *)

\* st.info / st.warning / st.error / st.success / st.markdown
Element(kind, text, detail) == [kind |-> kind, text |-> text, detail |-> detail]

\* mutant: the cursor is not rewound before the read
Seek0_Missing(f) == f

\* uploaded_file.seek(0)
Seek0(f) == [f EXCEPT !.pos = 0]

\* uploaded_file.read(): the bytes from the cursor to the end
ReadBytes(f) == [from |-> f.pos, len |-> f.size - f.pos]

\* the cursor after read()
AfterRead(f) == [f EXCEPT !.pos = f.size]

\* base64.b64encode(file_bytes).decode('utf-8'): 4 characters per 3 bytes,
\* padded
B64Encode(bytes) == [of |-> bytes, len |-> 4 * ((bytes.len + 2) \div 3)]

\* the JSON payload (lines 53-64)
Payload(f, b64, mime) ==
    [input  |-> [type |-> "file", file |-> b64, filename |-> f.name, mimetype |-> mime],
     output |-> [type |-> "text"]]

\* the headers (lines 66-69); key is the API_KEY global
Headers(key) ==
    [Authorization |-> <<"Token ", key>>, ContentType |-> "application/json"]

\* requests.post(STT_ENDPOINT, headers=..., data=json.dumps(payload), timeout=300)
PostRequest(f, b64, mime, key) ==
    [url |-> STT_ENDPOINT, headers |-> Headers(key),
     payload |-> Payload(f, b64, mime), timeout |-> POST_TIMEOUT]

RESULT_NO_TRANSCRIPT == <<ANALYSIS_FAILED, ": No transcript received.">>
RESULT_API_ERROR     == <<ANALYSIS_FAILED, " due to API connection error.">>
RESULT_NETWORK_ERROR == <<ANALYSIS_FAILED, " due to network or timeout error.">>
RESULT_UNEXPECTED    == <<ANALYSIS_FAILED, " due to an unexpected error.">>

TRANSCRIPT_HEADING == "## Full Transcript (via ApyHub)\n"
SUMMARY_SECTION ==
    "\n\n## Key Point Summary (5 Points)\n* **NOTE:** The summarization part requires a separate ApyHub AI call ..."

\* mutant: the result starts with the transcript itself, without the heading
FinalResult_NoHeading(transcript_text) ==
    PyStr(transcript_text) \o <<SUMMARY_SECTION>>

\* final_result (lines 105-112)
FinalResult(transcript_text) ==
    <<TRANSCRIPT_HEADING>> \o PyStr(transcript_text) \o <<SUMMARY_SECTION>>

Returned(p, result, msgs) == [path |-> p, result |-> result, msgs |-> msgs]

\* the try block and its handlers (lines 73-124), given the provider's answer
Outcome(resp, jerr) ==
    IF resp.kind # "http"
    THEN Returned("network", RESULT_NETWORK_ERROR,
             <<Element("error", "Network/Timeout Error", resp.kind)>>)
    ELSE IF RaisesForStatus(resp.status)
    THEN Returned("http", RESULT_API_ERROR,
             <<Element("error", "ApyHub API Call Failed (HTTP Error)",
                       [status |-> resp.status, text |-> resp.body])>>)
    ELSE IF resp.body.json = "malformed"
    THEN IF jerr = "RequestException"
         THEN Returned("network", RESULT_NETWORK_ERROR,
                  <<Element("error", "Network/Timeout Error", "JSONDecodeError")>>)
         ELSE Returned("unexpected", RESULT_UNEXPECTED,
                  <<Element("error", "An unexpected error occurred", "JSONDecodeError")>>)
    ELSE IF ExtractRaises(resp.body)
    THEN Returned("unexpected", RESULT_UNEXPECTED,
             <<Element("error", "An unexpected error occurred", "AttributeError")>>)
    ELSE LET transcript_text == TranscriptText(resp.body)
         IN  IF ~Truthy(transcript_text)
             THEN Returned("empty", RESULT_NO_TRANSCRIPT,
                      <<Element("error", "ApyHub returned success but no transcript data",
                                resp.body)>>)
             \* the elapsed time the message shows is not modelled
             ELSE Returned("success", FinalResult(transcript_text),
                      <<Element("success", "Transcription completed", <<>>)>>)

\* the whole function: the file after the call, the request sent, the
\* return value and the elements rendered
Analyze(f, mime, key, resp, jerr) ==
    LET f0             == Seek0(f)
        base64_content == B64Encode(ReadBytes(f0))
        out            == Outcome(resp, jerr)
    IN  [file    |-> AfterRead(f0),
         request |-> PostRequest(f, base64_content, mime, key),
         path    |-> out.path,
         result  |-> out.result,
         msgs    |-> <<Element("info", "Step 1/2: Preparing file", f.name)>>
                       \o (IF base64_content.len > BASE64_WARN_LIMIT
                           THEN <<Element("warning", "File is large", <<>>)>>
                           ELSE <<>>)
                       \o <<Element("info", "Step 2a/2: Calling ApyHub STT API", STT_ENDPOINT)>>
                       \o out.msgs]

-----------------------------------------------------------------------------
(* The script *)

SecretValues == {"", "apy-key"}

\* mutant: the file size is compared with the Base64 budget
SizeLimitExceeded_Base64Budget(f) == f.size > BASE64_WARN_LIMIT

\* uploaded_file.size > (15 * 1024 * 1024)
SizeLimitExceeded(f) == f.size > SIZE_LIMIT

\* analysis_result and not analysis_result.startswith("Analysis failed")
ShowsResult(result) == result # <<>> /\ ~StartsWith(result, ANALYSIS_FAILED)

\* st.success(f"File uploaded: ...") (line 190)
UploadedNotice(f, mime) == Element("success", "File uploaded", <<f.name, mime>>)

Init ==
    /\ pc = "startup"
    /\ secrets \in {<<>>} \cup {<<v>> : v \in SecretValues}
    /\ json_error \in JsonErrors
    /\ API_KEY = <<>>
    /\ uploaded_file = NoFile
    /\ mime_type = <<>>
    /\ ui = <<>>
    /\ requests = <<>>
    /\ response = <<>>
    /\ analysis_result = <<>>
    /\ path = "none"
    /\ repeated = FALSE

\* lines 13-18: the first run of the script reads the secret; without the
\* entry the script reports the error and stops
Startup ==
    /\ pc = "startup"
    /\ \/ /\ secrets # <<>>
          /\ API_KEY' = secrets
          /\ pc' = "running"
          /\ ui' = <<>>
       \/ /\ secrets = <<>>
          /\ API_KEY' = API_KEY
          /\ pc' = "stopped"
          /\ ui' = <<Element("error", "API Key Error", <<>>)>>
    /\ UNCHANGED <<secrets, json_error, uploaded_file, mime_type, requests,
                   response, analysis_result, path, repeated>>

\* the user picks a file: the script runs with the button not pressed
Upload(f) ==
    /\ pc = "running"
    /\ uploaded_file' = f
    /\ mime_type' = ResolveMime(f)
    /\ ui' = <<UploadedNotice(f, ResolveMime(f))>>
    /\ requests' = <<>>
    /\ response' = <<>>
    /\ analysis_result' = <<>>
    /\ path' = "none"
    /\ repeated' = FALSE
    /\ UNCHANGED <<pc, secrets, json_error, API_KEY>>

\* the user clears the uploader: uploaded_file is None, nothing below runs
RemoveFile ==
    /\ pc = "running"
    /\ uploaded_file # NoFile
    /\ uploaded_file' = NoFile
    /\ mime_type' = <<>>
    /\ ui' = <<>>
    /\ requests' = <<>>
    /\ response' = <<>>
    /\ analysis_result' = <<>>
    /\ path' = "none"
    /\ repeated' = FALSE
    /\ UNCHANGED <<pc, secrets, json_error, API_KEY>>

\* the user presses "Generate Transcript and Summary" (lines 175-208)
Submit ==
    /\ pc = "running"
    /\ uploaded_file # NoFile
    /\ mime_type' = ResolveMime(uploaded_file)
    /\ IF SizeLimitExceeded(uploaded_file)
       THEN /\ ui' = <<UploadedNotice(uploaded_file, mime_type'),
                       Element("error", "File size limit exceeded", <<>>)>>
            /\ path' = "oversize"
            /\ requests' = <<>>
            /\ response' = <<>>
            /\ analysis_result' = <<>>
            /\ repeated' = FALSE
            /\ UNCHANGED uploaded_file
       ELSE \E resp \in Responses :
              LET a == Analyze(uploaded_file, mime_type', API_KEY[1], resp, json_error)
              IN  /\ uploaded_file' = a.file
                  /\ requests' = <<a.request>>
                  /\ response' = <<resp>>
                  /\ analysis_result' = a.result
                  /\ path' = a.path
                  /\ repeated' = (response = <<resp>>)
                  /\ ui' = <<UploadedNotice(uploaded_file, mime_type')>> \o a.msgs
                             \o (IF ShowsResult(a.result)
                                 THEN <<Element("markdown", "analysis_result", a.result),
                                        Element("success", "Process complete", MODEL_NAME)>>
                                 ELSE <<Element("error", "The analysis failed", <<>>)>>)
    /\ UNCHANGED <<pc, secrets, json_error, API_KEY>>

Next ==
    \/ Startup
    \/ \E f \in MainFiles : Upload(f)
    \/ RemoveFile
    \/ Submit

Spec == Init /\ [][Next]_vars

\* the MIME fallback over every name and declared type
NextMime ==
    \/ Startup
    \/ \E f \in AllFiles : Upload(f)

SpecMime == Init /\ [][NextMime]_vars

-----------------------------------------------------------------------------
(* Vocabulary of the properties *)

\* a submit has run since the file was chosen
Submitted == path # "none"

HasElement(kind, text) ==
    \E i \in 1..Len(ui) : ui[i].kind = kind /\ ui[i].text = text

\* the success document is on the page
DocRendered == \E i \in 1..Len(ui) : ui[i].kind = "markdown"

\* an error message is on the page
ErrorShown == \E i \in 1..Len(ui) : ui[i].kind = "error"

\* analyze_media_with_apyhub was entered (its first st.info is on the page)
Entered == HasElement("info", "Step 1/2: Preparing file")

\* the provider answered with an HTTP response
Answered == response # <<>> /\ response[1].kind = "http"

\* the body is a JSON object whose transcript is a non-empty string, either
\* as `data` itself or as `data.text`
NonEmptyStringTranscript(body) ==
    /\ body.json = "object"
    /\ body.hasData
    /\ \/ body.data.k = "str" /\ body.data.s # <<>>
       \/ /\ body.data.k = "obj"
          /\ body.data.hasText
          /\ body.data.text.k = "str"
          /\ body.data.text.s # <<>>

\* the language tags of the specification's LanguageSelection
LANGUAGES == {"en-US", "my-MM", "es-ES", "fr-FR"}

-----------------------------------------------------------------------------
(* Properties *)

\* C1: a submit of a file whose size exceeds the ceiling ends in the
\* 'file size limit exceeded' error, makes no outbound call and never enters
\* the transcription function.
C1_OversizeRejected ==
    (Submitted /\ uploaded_file.size > SIZE_LIMIT)
        => /\ path = "oversize"
           /\ requests = <<>>
           /\ response = <<>>
           /\ HasElement("error", "File size limit exceeded")
           /\ ~Entered
           /\ ~DocRendered

C1_Witness ==
    /\ Submitted
    /\ uploaded_file.size = SIZE_LIMIT + 1
    /\ HasElement("error", "File size limit exceeded")

\* C2 (as claimed): HTTP 200 with a JSON object whose `data` is a non-empty
\* string s gives the success document: the transcript heading, exactly s,
\* then the placeholder summary.
C2_StringDataSucceeds ==
    (/\ Answered
     /\ response[1].status = 200
     /\ response[1].body.json = "object"
     /\ response[1].body.hasData
     /\ response[1].body.data.k = "str"
     /\ response[1].body.data.s # <<>>)
        => /\ path = "success"
           /\ analysis_result
                = <<TRANSCRIPT_HEADING>> \o response[1].body.data.s \o <<SUMMARY_SECTION>>
           /\ DocRendered

\* C3 (as claimed): HTTP 200 with `data` the empty string, or without
\* `data`, gives the 'no transcript' classification.
C3_EmptyDataIsEmptyResult ==
    (/\ Answered
     /\ response[1].status = 200
     /\ response[1].body.json = "object"
     /\ \/ ~response[1].body.hasData
        \/ response[1].body.data.k = "str" /\ response[1].body.data.s = <<>>)
        => /\ path = "empty"
           /\ analysis_result = RESULT_NO_TRANSCRIPT

\* C4 (as claimed): the result is a success only if the JSON response held
\* a transcript that is a non-empty string; no other response shape gives a
\* success document.
C4_SuccessOnlyWithStringTranscript ==
    (Answered /\ path = "success")
        => NonEmptyStringTranscript(response[1].body)

\* the API-error outcome: the classification, the message carrying the
\* status code and the raw body, and no success document
ApiErrorReported ==
    /\ path = "http"
    /\ analysis_result = RESULT_API_ERROR
    /\ \E i \in 1..Len(ui) :
          /\ ui[i].kind = "error"
          /\ ui[i].text = "ApyHub API Call Failed (HTTP Error)"
          /\ ui[i].detail = [status |-> response[1].status, text |-> response[1].body]
    /\ ~DocRendered

\* C5 (amended): every HTTP response with a 4xx or 5xx status gives the
\* API-error classification carrying the status code and the raw body.
C5_ErrorStatusIsApiError ==
    (Answered /\ response[1].status >= 400 /\ response[1].status <= 599)
        => ApiErrorReported

C5_Witness ==
    /\ Answered
    /\ response[1].status = 401
    /\ ApiErrorReported

\* C5 (as claimed): every HTTP response whose status is not 2xx gives the
\* API-error classification.
C5_NonSuccessIsApiError ==
    (Answered /\ ~(response[1].status >= 200 /\ response[1].status <= 299))
        => ApiErrorReported

\* C6 (amended): a declared content type that is non-empty and does not
\* contain 'octet-stream' is the resolved MIME type, whatever the file name.
C6_DeclaredTypeKept ==
    (/\ uploaded_file # NoFile
     /\ uploaded_file.type # <<>>
     /\ ~Contains(uploaded_file.type, "octet-stream"))
        => mime_type = uploaded_file.type

C6_Witness ==
    /\ uploaded_file # NoFile
    /\ uploaded_file.name.ext = "mp3"
    /\ uploaded_file.type = <<"video/", "webm">>
    /\ mime_type = <<"video/", "webm">>

\* C6 (as claimed): a declared content type that is non-empty and is not
\* exactly application/octet-stream is the resolved MIME type.
C6_NonGenericTypeKept ==
    (/\ uploaded_file # NoFile
     /\ uploaded_file.type # <<>>
     /\ uploaded_file.type # OCTET_STREAM)
        => mime_type = uploaded_file.type

\* C7 (as claimed): no outbound call is made while the configured
\* credential is absent or empty, and none carries an empty credential.
C7_NoCallWithoutCredential ==
    requests # <<>>
        => /\ secrets # <<>>
           /\ secrets # <<"">>
           /\ requests[1].headers.Authorization[2] # ""

\* C8 (as claimed): every outbound request carries a language tag of the
\* fixed set.
C8_RequestCarriesLanguage ==
    requests # <<>>
        => /\ "language" \in DOMAIN requests[1].payload
           /\ requests[1].payload["language"] \in LANGUAGES

\* C9: after every submit, the success document is rendered exactly when the
\* transcription took the success path, and then without any error message;
\* on every other path an error message is shown and nothing of the success
\* document is.
C9_DocumentIffSuccess ==
    Submitted
        => /\ DocRendered <=> path = "success"
           /\ path # "success"
                => /\ ErrorShown
                   /\ ~HasElement("success", "Process complete")
                   /\ ~HasElement("success", "Transcription completed")
           /\ path = "success"
                => /\ ~ErrorShown
                   /\ HasElement("markdown", "analysis_result")

C9_Witness ==
    /\ path = "success"
    /\ DocRendered
    /\ response[1].body.data.hasText
    /\ response[1].body.data.text.k = "str"
    /\ StartsWith(response[1].body.data.text.s, ANALYSIS_FAILED)

\* C10: a submit that follows an earlier invocation on the same file sends
\* the same request, holding the whole file from byte 0, and, when the
\* provider gives the same answer, returns the same result on the same path
\* and renders the same document.
C10_Idempotent ==
    [][(requests # <<>> /\ requests' # <<>>)
          => /\ requests' = requests
             /\ requests'[1].payload.input.file.of
                  = [from |-> 0, len |-> uploaded_file.size]
             /\ response' = response
                  => /\ analysis_result' = analysis_result
                     /\ path' = path
                     /\ DocRendered' = DocRendered]_vars

C10_Witness ==
    /\ repeated
    /\ path = "success"
    /\ uploaded_file.size > 0
    /\ uploaded_file.pos = uploaded_file.size

====
